---- MODULE Spec2Model ----
(***************************************************************************)
(* Preview generation pipeline of metadata&preview_maker: the three        *)
(* generators preview.py, Western+preview.py and Jav+Preview.py.           *)
(*                                                                         *)
(* Fractions of the video duration are integers in thousandths (0.05 is    *)
(* 50), the unit the planner rounds to.  Times are integers in             *)
(* microseconds, so that fraction * duration is exact.  Where the Python   *)
(* code compares binary doubles, the model records whether the double      *)
(* equals the 3-decimal literal of its value.                              *)
(***************************************************************************)
EXTENDS Integers, Sequences, FiniteSets, TLC

Impls == {"preview", "western", "jav"}

(***************************************************************************)
(* Bounds of the model.                                                    *)
(***************************************************************************)
MaxN == 6
MaxBlacklist == 2

(***************************************************************************)
(* Program constants.                                                      *)
(***************************************************************************)
START_PCT == 50
END_PCT == 980
RETRIES == 2
BOUNDARY_ADJUST == 10
SHORTFALL_ADJUST == 5
CLAMP_MARGIN == 1
MAX_SEGMENTS == 30

Min(S) == CHOOSE x \in S : \A y \in S : x <= y
Max(S) == CHOOSE x \in S : \A y \in S : x >= y

RECURSIVE sorted(_)
sorted(S) == IF S = {} THEN << >> ELSE <<Min(S)>> \o sorted(S \ {Min(S)})

Range(s) == {s[i] : i \in 1..Len(s)}

(***************************************************************************)
(* Binary doubles.  0.05 + 0.01 evaluates to 0.060000000000000005, which   *)
(* equals no 3-decimal literal; every other sum the planner forms from its *)
(* boundaries (0.05 + 0.005, 0.98 - 0.01, 0.98 - 0.005 and the sums after  *)
(* them) is the double of the literal.                                     *)
(***************************************************************************)
InexactSums == {<<START_PCT, BOUNDARY_ADJUST>>}
float_add(x, d) ==
  [v |-> x.v + d, lit |-> x.lit /\ <<x.v, d>> \notin InexactSums]

\* `x not in BLACKLISTED_CUT_POINTS' for a double x and a blacklist of literals
not_blacklisted(x, BL) == ~(x.lit /\ x.v \in BL)

(***************************************************************************)
(* round(current_start + step * i, 3) with step = (ce - cs) / den.  Off a  *)
(* tie the double rounds as the exact quotient does; on a tie (exact value *)
(* ends in ...5 ten-thousandths) the double computed decides, and          *)
(* TiesRoundedUp lists the ties CPython rounds up for den <= 32.           *)
(***************************************************************************)
TiesRoundedUp ==
  { <<50,980,4,3>>, <<50,980,8,6>>, <<50,980,12,1>>, <<50,980,12,5>>,
    <<50,980,12,7>>, <<50,980,12,9>>, <<50,980,12,11>>, <<50,980,16,12>>,
    <<50,980,20,1>>, <<50,980,20,3>>, <<50,980,20,7>>, <<50,980,20,13>>,
    <<50,980,20,15>>, <<50,980,20,17>>, <<50,980,24,2>>, <<50,980,24,10>>,
    <<50,980,24,14>>, <<50,980,24,18>>, <<50,980,24,22>>, <<50,980,32,24>>,
    <<55,975,16,9>>, <<55,975,16,11>>, <<55,975,32,18>>, <<55,975,32,22>>,
    <<60,970,20,3>>, <<60,970,20,7>> }

\* variant: a step of zero
no_step(cs, ce, den, i) == cs

round3(cs, ce, den, i) ==
  LET num == cs * den + (ce - cs) * i
      q == num \div den
      r == num % den
  IN  IF 2 * r < den THEN q
      ELSE IF 2 * r > den THEN q + 1
      ELSE IF <<cs, ce, den, i>> \in TiesRoundedUp THEN q + 1 ELSE q

\* point = max(current_start + 0.001, min(current_end - 0.001, point))
clamp_inner(cs, ce, p) ==
  LET hi == IF ce - CLAMP_MARGIN < p THEN ce - CLAMP_MARGIN ELSE p
  IN  IF cs + CLAMP_MARGIN > hi THEN cs + CLAMP_MARGIN ELSE hi

\* the start/end points added when not blacklisted (round(x, 3) is x.v)
boundary_points(st, BL) ==
  (IF not_blacklisted(st.start_pct, BL) THEN {st.start_pct.v} ELSE {}) \cup
  (IF not_blacklisted(st.end_pct, BL) THEN {st.end_pct.v} ELSE {})

\* the inner points preview.py and Western+preview.py add
inner_points_clamped(cs, ce, num_inner, BL) ==
  { p \in { clamp_inner(cs, ce, round3(cs, ce, num_inner + 1, i)) :
              i \in 1..num_inner } : p \notin BL }

\* the inner points Jav+Preview.py adds (no clamp)
inner_points_jav(cs, ce, num_inner, BL) ==
  { p \in { round3(cs, ce, num_inner + 1, i) : i \in 1..num_inner } :
      p \notin BL }

\* variant: the range is left as it is
no_shrink(st, d) == st

shrink(st, d) ==
  [start_pct |-> float_add(st.start_pct, d),
   end_pct |-> float_add(st.end_pct, 0 - d),
   retries |-> st.retries]

plan_init == [start_pct |-> [v |-> START_PCT, lit |-> TRUE],
              end_pct |-> [v |-> END_PCT, lit |-> TRUE],
              retries |-> RETRIES]

(***************************************************************************)
(* One iteration of the while loop of _generate_cut_points.  The result    *)
(* says how the iteration ends: "retry" (continue with st), "done" (break  *)
(* with points), "fail" (return []), "raise" (min() of an empty set).      *)
(***************************************************************************)
attempt_preview(N, BL, st) ==
  LET pts0 == boundary_points(st, BL)
  IN
  IF Cardinality(pts0) < 2 /\ N >= 2
  THEN LET s2 == shrink(st, BOUNDARY_ADJUST)
       IN  IF s2.start_pct.v >= s2.end_pct.v
           THEN [kind |-> "fail", st |-> s2, points |-> {}]
           ELSE [kind |-> "retry",
                 st |-> [s2 EXCEPT !.retries = st.retries - 1],
                 points |-> {}]
  ELSE IF pts0 = {}
  THEN [kind |-> "raise", st |-> st, points |-> {}]
  ELSE
    LET cs == Min(pts0)
        ce == Max(pts0)
        num_inner == N - Cardinality(pts0)
    IN
    IF num_inner > 0 /\ ce = cs
    THEN [kind |-> "fail", st |-> st, points |-> {}]
    ELSE
      LET pts == IF num_inner > 0
                 THEN pts0 \cup inner_points_clamped(cs, ce, num_inner, BL)
                 ELSE pts0
      IN
      IF Cardinality(pts) < N
      THEN LET s2 == shrink(st, SHORTFALL_ADJUST)
           IN  IF s2.start_pct.v >= s2.end_pct.v
               THEN [kind |-> "fail", st |-> s2, points |-> {}]
               ELSE [kind |-> "retry",
                     st |-> [s2 EXCEPT !.retries = st.retries - 1],
                     points |-> {}]
      ELSE [kind |-> "done", st |-> st, points |-> pts]

attempt_jav(N, BL, st) ==
  LET pts0 == boundary_points(st, BL)
      cs == IF pts0 = {} THEN st.start_pct.v ELSE Min(pts0)
      ce == IF pts0 = {} THEN st.end_pct.v ELSE Max(pts0)
      num_inner == N - Cardinality(pts0)
      pts == IF num_inner > 0
             THEN pts0 \cup inner_points_jav(cs, ce, num_inner, BL)
             ELSE pts0
  IN
  IF Cardinality(pts) < N
  THEN [kind |-> "retry",
        st |-> [shrink(st, SHORTFALL_ADJUST) EXCEPT !.retries = st.retries - 1],
        points |-> {}]
  ELSE [kind |-> "done", st |-> st, points |-> pts]

attempt(im, N, BL, st) ==
  IF im = "jav" THEN attempt_jav(N, BL, st) ELSE attempt_preview(N, BL, st)

(***************************************************************************)
(* The planner loop run to its end: `while len(valid_points) < num_points  *)
(* and retries > 0', then the final length check.  ok is FALSE when the    *)
(* function raises; otherwise points is the list returned.                 *)
(***************************************************************************)
RECURSIVE plan_loop(_, _, _, _)
plan_loop(im, N, BL, st) ==
  IF ~(0 < N /\ st.retries > 0)
  THEN [ok |-> TRUE, points |-> << >>]
  ELSE LET a == attempt(im, N, BL, st)
       IN  CASE a.kind = "retry" -> plan_loop(im, N, BL, a.st)
             [] a.kind = "done" -> [ok |-> TRUE, points |-> sorted(a.points)]
             [] a.kind = "fail" -> [ok |-> TRUE, points |-> << >>]
             [] OTHER -> [ok |-> FALSE, points |-> << >>]

generate_cut_points(im, N, BL) == plan_loop(im, N, BL, plan_init)

(***************************************************************************)
(* State.                                                                  *)
(***************************************************************************)
VARIABLES
  impl,          \* which generator runs
  cfg,           \* the Config class attributes the run reads
  video,         \* what the probes report about the source file
  pc,            \* position of the run
  plan,          \* start_pct, end_pct, retries of the planner loop
  valid_points,  \* the list _generate_cut_points returns
  attempts,      \* planner loop iterations executed
  duration,      \* metadata["duration"], 0 before the probe
  cut_points_sec,
  segment_files,
  timestamped_segment_files,
  segment_frame_files,
  results,       \* the results list of run, each entry with its artifact
  ret,           \* what run returned
  exit_at,       \* the exit run returned by
  exists,        \* artifacts present in the destination directory
  video_in_target, \* the source file is in the destination directory
  temp_dir,      \* the <base>-temp directory exists
  temp_files,    \* the segment files in the <base>-temp directory
  log,           \* external calls and deletions, in order
  faults,        \* failed external calls so far
  h_stacked,     \* the rows handed to horizontal stacking
  image_sheet,   \* rows of the static sheet's canvas and the cells drawn
  batch,         \* the loop of main over the videos found
  folder,        \* the files main found, and the paths their runs wrote
  layout         \* is_vertical and the pixel widths derived from it

inputVars == <<impl, cfg, video>>
mainVars == <<batch, folder, layout>>
planVars == <<plan, valid_points, attempts>>
segVars == <<cut_points_sec, segment_files, timestamped_segment_files>>
fsVars == <<exists, video_in_target, temp_dir, temp_files>>
tempVars == <<temp_dir, temp_files>>
outVars == <<segment_frame_files, results, h_stacked, image_sheet>>
retVars == <<ret, exit_at>>
vars == <<inputVars, pc, planVars, duration, segVars, fsVars, outVars,
          retVars, log, faults, batch, folder, layout>>

\* Config as the class body sets it
DefaultConfig ==
  [CREATE_WEBP_PREVIEW |-> TRUE,
   CREATE_WEBP_PREVIEW_SHEET |-> TRUE,
   CREATE_IMAGE_PREVIEW_SHEET |-> TRUE,
   NUM_OF_SEGMENTS |-> 16,
   SEGMENT_DURATION |-> 1500000,
   GRID_WIDTH |-> 4,
   TIMESTAMPS_MODE |-> 2,
   KEEP_TEMP_FILES |-> FALSE,
   IGNORE_EXISTING |-> TRUE,
   CONFIRM_CUT_POINTS_REQUIRED |-> FALSE,
   BLACKLISTED_CUT_POINTS |-> {},
   ADD_BLACK_BARS |-> FALSE]

\* a source every probe accepts
GoodVideo ==
  [rot_probe_ok |-> TRUE, rotation |-> 0, probe_ok |-> TRUE,
   codec_ok |-> TRUE, duration |-> 12000000, width |-> 1920, height |-> 1080]

\* main before its loop: nothing found yet
NoBatch ==
  [videos |-> << >>, i |-> 1, started |-> << >>, moved |-> {},
   processed_count |-> 0, success_count |-> 0, failure_count |-> 0,
   state |-> "idle"]

\* main before its scan of the input folder
NoFolder ==
  [files |-> << >>, i |-> 1, processors |-> << >>, disk |-> {}, lost |-> {},
   state |-> "idle"]

\* __init__: is_vertical = False, no clip and no info image yet
NoLayout == [is_vertical |-> FALSE, segment_width |-> 0, img_width |-> 0]

\* the values of the run's attributes before run is called
Idle ==
  /\ layout = NoLayout
  /\ batch = NoBatch
  /\ folder = NoFolder
  /\ plan = plan_init
  /\ valid_points = << >>
  /\ attempts = 0
  /\ duration = 0
  /\ cut_points_sec = << >>
  /\ segment_files = << >>
  /\ timestamped_segment_files = << >>
  /\ segment_frame_files = << >>
  /\ results = << >>
  /\ ret = "none"
  /\ exit_at = "none"
  /\ temp_dir = FALSE
  /\ temp_files = {}
  /\ log = << >>
  /\ faults = 0
  /\ h_stacked = << >>
  /\ image_sheet = [rows |-> 0, cells |-> << >>, painted |-> << >>]

\* candidate blacklist entries: the boundaries, their adjusted values, and
\* inner points of small segment counts
BlacklistCandidates == {50, 55, 60, 970, 975, 980, 515, 360, 670}

Blacklists == {B \in SUBSET BlacklistCandidates : Cardinality(B) <= MaxBlacklist}

(***************************************************************************)
(* The planner, one loop iteration per step.                               *)
(***************************************************************************)
\* every segment count validation lets through, nothing blacklisted
UnblockedConfigs ==
  { [DefaultConfig EXCEPT !.NUM_OF_SEGMENTS = n,
                          !.BLACKLISTED_CUT_POINTS = {}] :
      n \in 2..MAX_SEGMENTS }

PlannerConfigs ==
  { [DefaultConfig EXCEPT !.NUM_OF_SEGMENTS = n,
                          !.BLACKLISTED_CUT_POINTS = b,
                          !.CONFIRM_CUT_POINTS_REQUIRED = c] :
      n \in 0..MaxN, b \in Blacklists, c \in BOOLEAN } \cup UnblockedConfigs

PlannerInit ==
  /\ impl \in Impls
  /\ cfg \in PlannerConfigs
  /\ video = GoodVideo
  /\ pc = "plan_loop"
  /\ exists = {}
  /\ video_in_target = FALSE
  /\ Idle

\* Jav+Preview.py never prompts
confirm_prompted(im, c) == im # "jav" /\ c.CONFIRM_CUT_POINTS_REQUIRED

plannerUnchanged ==
  UNCHANGED <<inputVars, mainVars, duration, segVars, fsVars, outVars, retVars, log,
              faults>>

\* one iteration of the while loop
PlanAttempt ==
  /\ pc = "plan_loop"
  /\ Len(valid_points) < cfg.NUM_OF_SEGMENTS /\ plan.retries > 0
  /\ LET a == attempt(impl, cfg.NUM_OF_SEGMENTS, cfg.BLACKLISTED_CUT_POINTS, plan)
     IN  /\ plan' = a.st
         /\ attempts' = attempts + 1
         /\ CASE a.kind = "retry" ->
                   /\ pc' = "plan_loop"
                   /\ valid_points' = valid_points
              [] a.kind = "done" ->
                   /\ pc' = IF confirm_prompted(impl, cfg)
                            THEN "plan_confirm" ELSE "plan_returned"
                   /\ valid_points' = sorted(a.points)
              [] a.kind = "fail" ->
                   /\ pc' = "plan_returned"
                   /\ valid_points' = << >>
              [] OTHER ->
                   /\ pc' = "plan_raised"
                   /\ valid_points' = << >>
  /\ plannerUnchanged

\* the loop condition fails: the final length check returns []
PlanExhausted ==
  /\ pc = "plan_loop"
  /\ ~(Len(valid_points) < cfg.NUM_OF_SEGMENTS /\ plan.retries > 0)
  /\ pc' = "plan_returned"
  /\ valid_points' = << >>
  /\ UNCHANGED <<plan, attempts>>
  /\ plannerUnchanged

\* "Use these cut points? (yes/no)": anything but yes returns []
PlanConfirm ==
  /\ pc = "plan_confirm"
  /\ \E yes \in BOOLEAN :
       valid_points' = IF yes THEN valid_points ELSE << >>
  /\ pc' = "plan_returned"
  /\ UNCHANGED <<plan, attempts>>
  /\ plannerUnchanged

PlannerNext == PlanAttempt \/ PlanExhausted \/ PlanConfirm

SpecPlanner == PlannerInit /\ [][PlannerNext]_vars

(***************************************************************************)
(* Claims about the planner.                                               *)
(***************************************************************************)
StrictlyIncreasing(s) == \A i \in 1..(Len(s) - 1) : s[i] < s[i + 1]

\* some set of N pairwise-distinct 3-decimal fractions in (0,1) avoids BL
Feasible(N, BL) == Cardinality((1..999) \ BL) >= N

\* C5: for every N >= 2 and every blacklist with a feasible split, the
\* planner (no confirmation prompt in the way) returns exactly N strictly
\* increasing fractions in (0,1), none of them blacklisted.
C5_PlannerReturnsNClean ==
  ( /\ pc \in {"plan_returned", "plan_raised"}
    /\ cfg.NUM_OF_SEGMENTS >= 2
    /\ ~cfg.CONFIRM_CUT_POINTS_REQUIRED
    /\ Feasible(cfg.NUM_OF_SEGMENTS, cfg.BLACKLISTED_CUT_POINTS) )
  => /\ pc = "plan_returned"
     /\ Len(valid_points) = cfg.NUM_OF_SEGMENTS
     /\ StrictlyIncreasing(valid_points)
     /\ \A i \in 1..Len(valid_points) :
          /\ 0 < valid_points[i] /\ valid_points[i] < 1000
          /\ valid_points[i] \notin cfg.BLACKLISTED_CUT_POINTS

\* C6: for every N >= 1 and every blacklist the returned list is empty or
\* has exactly N entries.
C6_EmptyOrExactlyN ==
  (pc = "plan_returned" /\ cfg.NUM_OF_SEGMENTS >= 1)
  => (valid_points = << >> \/ Len(valid_points) = cfg.NUM_OF_SEGMENTS)

(***************************************************************************)
(* The run of one video.                                                   *)
(***************************************************************************)
MaxFaults == 1

MIN_DURATION == 10000000
MIN_CUT_DURATION == 10000

ArtifactOrder == <<"preview", "sheet", "image">>
Artifacts == Range(ArtifactOrder)

create_flag(c, a) ==
  CASE a = "preview" -> c.CREATE_WEBP_PREVIEW
    [] a = "sheet" -> c.CREATE_WEBP_PREVIEW_SHEET
    [] OTHER -> c.CREATE_IMAGE_PREVIEW_SHEET

configured(c) == {a \in Artifacts : create_flag(c, a)}

\* the members of S in the order of output_files_config
in_order(S) == SelectSeq(ArtifactOrder, LAMBDA a : a \in S)

\* Config.validate: the grid checks of preview.py and Western+preview.py;
\* Jav+Preview.py checks directories only
validate(im, c) ==
  \/ im = "jav"
  \/ ~c.CREATE_WEBP_PREVIEW_SHEET
  \/ /\ c.GRID_WIDTH \in {3, 4}
     /\ LET min_segments == IF c.GRID_WIDTH = 3 THEN 9 ELSE 12
            max_segments == IF c.GRID_WIDTH = 3 THEN 30 ELSE 28
        IN  /\ min_segments <= c.NUM_OF_SEGMENTS
            /\ c.NUM_OF_SEGMENTS <= max_segments
            /\ c.NUM_OF_SEGMENTS % c.GRID_WIDTH = 0

Event(op, a, i) == [op |-> op, a |-> a, i |-> i]

calls(op) == SelectSeq(log, LAMBDA e : e.op = op)

unlink_events(as) == [k \in 1..Len(as) |-> Event("unlink", as[k], 0)]

(***************************************************************************)
(* _check_existing_outputs: the outcomes the file system and the user      *)
(* allow.  proceed is the value returned, unlinked the files deleted in    *)
(* order, failed the number of deletions that raised OSError.              *)
(***************************************************************************)
check_outcome(p, u, f) == [proceed |-> p, unlinked |-> u, failed |-> f]

\* variant: an implementation that never skips
never_skip(im, c, missing, in_target) == FALSE

\* variant: the skip does not look at IGNORE_EXISTING
skip_when_all_exist(im, c, missing, in_target) == missing = {}

\* the condition under which the implementation skips without touching anything
skip_existing(im, c, missing, in_target) ==
  /\ missing = {}
  /\ ~c.IGNORE_EXISTING
  /\ (im = "preview" => in_target)

check_existing_preview(c, have) ==
  IF c.IGNORE_EXISTING
  THEN { check_outcome(TRUE, in_order(have \ F), Cardinality(F)) :
           F \in SUBSET have }
  ELSE IF have = {}
  THEN { check_outcome(TRUE, << >>, 0) }
  ELSE LET o == in_order(have)
       IN  { check_outcome(j = Len(o), SubSeq(o, 1, j), 0) : j \in 0..Len(o) }
           \cup
           { check_outcome(FALSE, SubSeq(o, 1, j), 1) : j \in 0..(Len(o) - 1) }

check_existing_western(c, have) ==
  IF have # {} /\ c.IGNORE_EXISTING
  THEN LET o == in_order(have)
       IN  { check_outcome(TRUE, o, 0) } \cup
           { check_outcome(FALSE, SubSeq(o, 1, j), 1) : j \in 0..(Len(o) - 1) }
  ELSE { check_outcome(TRUE, << >>, 0) }

check_existing_jav(c, have) ==
  IF c.IGNORE_EXISTING
  THEN { check_outcome(TRUE, in_order(have), 0) }
  ELSE IF have # {}
  THEN { check_outcome(FALSE, << >>, 0) }
  ELSE { check_outcome(TRUE, << >>, 0) }

check_existing_outputs(im, c, ex, in_target) ==
  LET have == configured(c) \cap ex
      missing == configured(c) \ ex
  IN  IF skip_existing(im, c, missing, in_target)
      THEN { check_outcome(FALSE, << >>, 0) }
      ELSE CASE im = "preview" -> check_existing_preview(c, have)
             [] im = "western" -> check_existing_western(c, have)
             [] OTHER -> check_existing_jav(c, have)

(***************************************************************************)
(* _get_metadata and the duration gate of run.                             *)
(***************************************************************************)
rotation_rejected(im, v) ==
  CASE im = "preview" -> v.rot_probe_ok /\ v.rotation # 0
    [] im = "jav" -> ~v.rot_probe_ok \/ v.rotation # 0
    [] OTHER -> FALSE

codec_rejected(im, v) == im # "western" /\ ~v.codec_ok

\* variant: whatever ffprobe reports is accepted
always_accepted(im, v) == TRUE

get_metadata(im, v) ==
  ~rotation_rejected(im, v) /\ v.probe_ok /\ ~codec_rejected(im, v)

\* the ffprobe calls _get_metadata makes
probe_events(im, v) ==
  (IF im = "western" THEN << >> ELSE <<Event("probe", "rotation", 0)>>) \o
  (IF rotation_rejected(im, v) THEN << >> ELSE <<Event("probe", "format", 0)>>)

\* variant: a gate that lets a duration of exactly 10 s through
shorter_than(d) == d < MIN_DURATION

too_short(d) == d <= MIN_DURATION

(***************************************************************************)
(* _generate_segments.  EF are the cut points whose transcode or           *)
(* verification fails, OF those whose timestamp overlay fails.             *)
(***************************************************************************)
\* variant: the configured duration, not capped by what is left
uncapped_duration(c, start, dur) == c.SEGMENT_DURATION

cut_duration(c, start, dur) ==
  IF c.SEGMENT_DURATION <= dur - start THEN c.SEGMENT_DURATION ELSE dur - start

seg_skipped(c, start, dur) ==
  start >= dur \/ cut_duration(c, start, dur) <= MIN_CUT_DURATION

attempted_cuts(c, cuts, dur) ==
  {i \in 1..Len(cuts) : ~seg_skipped(c, cuts[i], dur)}

overlay_called(c) == c.TIMESTAMPS_MODE \in {1, 2}

\* variant: the overlay path is used whether or not the overlay succeeded
assume_overlaid(c, OF, i) == overlay_called(c)

overlaid(c, OF, i) == overlay_called(c) /\ i \notin OF

segment(c, cuts, dur, i, ts) ==
  [seg |-> i, start |-> cuts[i], cut |-> cut_duration(c, cuts[i], dur),
   ts |-> ts]

\* valid_segment_paths
preview_segments(c, cuts, dur, EF, OF) ==
  LET acc == sorted(attempted_cuts(c, cuts, dur) \ EF)
  IN  [k \in 1..Len(acc) |->
         segment(c, cuts, dur, acc[k],
                 c.TIMESTAMPS_MODE = 1 /\ overlaid(c, OF, acc[k]))]

\* variant: nothing is collected for the sheet
no_sheet_list(im, c, cuts, dur, EF, OF) == << >>

\* timestamped_paths_for_sheet
sheet_segments_list(im, c, cuts, dur, EF, OF) ==
  LET acc == sorted(attempted_cuts(c, cuts, dur) \ EF)
  IN  IF im = "preview" \/ c.TIMESTAMPS_MODE = 2
      THEN [k \in 1..Len(acc) |->
              segment(c, cuts, dur, acc[k], overlaid(c, OF, acc[k]))]
      ELSE << >>

\* the unlink calls of the failure branch
failed_segment_events(im, i) ==
  <<Event("unlink", "segment", i)>> \o
  (IF im = "jav" THEN << >> ELSE <<Event("unlink", "ts_segment", i)>>)

\* the calls of one pass of the loop; an overlay call is logged with what
\* _overlay_timestamp returned
RECURSIVE segment_events(_, _, _, _, _, _, _)
segment_events(im, c, cuts, dur, EF, OF, i) ==
  IF i > Len(cuts) THEN << >>
  ELSE (IF seg_skipped(c, cuts[i], dur) THEN << >>
        ELSE <<Event("extract", "", i)>> \o
             (IF i \in EF THEN failed_segment_events(im, i)
              ELSE IF overlay_called(c)
              THEN <<Event("overlay", IF i \in OF THEN "failed" ELSE "ok", i)>>
              ELSE << >>))
       \o segment_events(im, c, cuts, dur, EF, OF, i + 1)

\* the file of segment i in the temp directory, ts: the ts_ copy
SegFile(i, ts) == [seg |-> i, ts |-> ts]

\* variant: the failure branch deletes nothing
keep_failed(files, EF) == files

\* segment_path.unlink and ts_path.unlink of the failure branch
cleanup_failed(files, EF) == {f \in files : f.seg \notin EF}

\* the ts_ files a failed overlay can leave: _overlay_timestamp of
\* Western+preview.py does not unlink its output
overlay_leftovers(im, OF) == IF im = "western" THEN SUBSET OF ELSE {{}}

\* the files in the temp directory after the loop; every transcode writes
\* its output file, whole or partial; LO are the failed overlays whose
\* output is left
segment_temp_files(c, cuts, dur, EF, OF, LO) ==
  LET att == attempted_cuts(c, cuts, dur)
      written == {SegFile(i, FALSE) : i \in att}
      stamped == {SegFile(i, TRUE) :
                    i \in {j \in att \ EF : overlaid(c, OF, j) \/ j \in LO}}
  IN  cleanup_failed(written, EF) \cup stamped

(***************************************************************************)
(* _generate_webp_preview_sheet.  A sheet fault names the external call    *)
(* that fails (kind "none": no call fails) and, for a horizontal stack,    *)
(* the row.                                                                *)
(***************************************************************************)
Filler == [seg |-> 0, start |-> 0, cut |-> 0, ts |-> FALSE]

num_rows(n, G) == (n + G - 1) \div G

row_group(segs, G, r) ==
  SubSeq(segs, (r - 1) * G + 1, Min({r * G, Len(segs)}))

pad_row(group, G) == group \o [k \in 1..(G - Len(group)) |-> Filler]

\* variant: the sheet reads the list of the standalone preview
sheet_reads_preview_list(im, c, sf, tsf) == sf

\* preview.py reads the sheet list in every mode, the others in mode 2 only
sheet_segments(im, c, sf, tsf) ==
  IF im = "preview" \/ c.TIMESTAMPS_MODE = 2 THEN tsf ELSE sf

\* a short final row returns False in Western+preview.py and Jav+Preview.py
short_row_fails(im, segs, G) == im # "preview" /\ Len(segs) % G # 0

\* the rows handed to _stack_videos(axis='h') when no external call fails
sheet_rows(im, segs, G) ==
  IF im = "preview"
  THEN [r \in 1..num_rows(Len(segs), G) |-> pad_row(row_group(segs, G, r), G)]
  ELSE [r \in 1..(Len(segs) \div G) |-> row_group(segs, G, r)]

SheetFault(kind, row) == [kind |-> kind, row |-> row]
NoFault == SheetFault("none", 0)

SheetFaults(im, segs, G) ==
  IF segs = << >> THEN {}
  ELSE { SheetFault(k, 0) : k \in {"info", "info_video", "raise"} }
       \cup { SheetFault("hstack", r) : r \in 1..Len(sheet_rows(im, segs, G)) }
       \cup (IF im = "preview" /\ Len(segs) % G # 0
             THEN {SheetFault("filler", 0)} ELSE {})
       \cup (IF short_row_fails(im, segs, G) THEN {}
             ELSE { SheetFault(k, 0) : k \in {"vstack", "encode"} })

sheet_result(ok, why, rows) == [ok |-> ok, why |-> why, rows |-> rows]

sheet_build(im, segs, G, f) ==
  LET all == sheet_rows(im, segs, G)
  IN  CASE segs = << >> -> sheet_result(FALSE, "no_segments", << >>)
        [] f.kind \in {"info", "info_video", "raise"} ->
             sheet_result(FALSE, f.kind, << >>)
        [] f.kind = "filler" ->
             sheet_result(FALSE, "filler", SubSeq(all, 1, Len(all) - 1))
        [] f.kind = "hstack" ->
             sheet_result(FALSE, "hstack", SubSeq(all, 1, f.row))
        [] short_row_fails(im, segs, G) -> sheet_result(FALSE, "short_row", all)
        [] all = << >> -> sheet_result(FALSE, "no_rows", all)
        [] f.kind \in {"vstack", "encode"} -> sheet_result(FALSE, f.kind, all)
        [] OTHER -> sheet_result(TRUE, "ok", all)

(***************************************************************************)
(* _extract_segment_frames and _generate_image_preview_sheet.  FF are the  *)
(* positions in segment_files whose two extraction attempts both fail, PF  *)
(* the positions in segment_frame_files whose frame cannot be pasted.      *)
(***************************************************************************)
Placeholder == [kind |-> "placeholder", seg |-> 0]
Blank == [kind |-> "blank", seg |-> 0]
Frame(seg) == [kind |-> "frame", seg |-> seg]

extract_segment_frames(sf, FF) ==
  LET kept == sorted((1..Len(sf)) \ FF)
  IN  [k \in 1..Len(kept) |-> sf[kept[k]].seg]

frame_events(sf) == [k \in 1..Len(sf) |-> Event("frame", "", sf[k].seg)]

\* rows of the canvas
image_rows(im, c, nf) ==
  IF im = "preview" THEN num_rows(c.NUM_OF_SEGMENTS, c.GRID_WIDTH)
  ELSE num_rows(nf, c.GRID_WIDTH)

\* the sheet without the loop over the slots that have no frame
frames_only(im, c, frames, PF) ==
  [k \in 1..Len(frames) |->
     IF k \notin PF THEN Frame(frames[k])
     ELSE IF im = "jav" THEN Blank ELSE Placeholder]

\* the cells drawn, cell k at grid position ((k-1) % G, (k-1) \div G)
image_cells_drawn(im, c, frames, PF) ==
  LET nf == Len(frames)
      n == IF im = "preview" THEN Max({nf, c.NUM_OF_SEGMENTS}) ELSE nf
  IN  [k \in 1..n |->
         IF k > nf THEN Placeholder
         ELSE IF k \notin PF THEN Frame(frames[k])
         ELSE IF im = "jav" THEN Blank ELSE Placeholder]

\* the cells in the order the two loops paint them: one paste or error
\* placeholder per frame, then one placeholder per slot of
\* range(num_frames_extracted, num_frames_expected)
image_cells_painted(im, c, frames, PF) ==
  LET nf == Len(frames)
      first == [k \in 1..nf |-> k]
      missing == IF im = "preview" /\ c.NUM_OF_SEGMENTS > nf
                 THEN [j \in 1..(c.NUM_OF_SEGMENTS - nf) |-> nf + j]
                 ELSE << >>
  IN  IF im = "jav" THEN SelectSeq(first, LAMBDA k : k \notin PF)
      ELSE first \o missing

NoImage == [rows |-> 0, cells |-> << >>, painted |-> << >>]

ImageFaultKinds == {"info", "first_frame", "save", "raise"}

(***************************************************************************)
(* run.                                                                    *)
(***************************************************************************)
rank(a) ==
  CASE a = "preview" -> 1 [] a = "sheet" -> 2 [] a = "image" -> 3 [] OTHER -> 0

\* the next configured build step, or the end of the try block
stage_after(c, a) ==
  LET later == SelectSeq(ArtifactOrder,
                         LAMBDA b : create_flag(c, b) /\ rank(b) > rank(a))
  IN  IF later = << >> THEN "finish" ELSE later[1]

Result(a, r, why) == [a |-> a, r |-> r, why |-> why]

\* variant: all(r is True for r in results)
all_true(res) == \A k \in 1..Len(res) : res[k].r

\* any(r is True for r in results)
any_true(res) == \E k \in 1..Len(res) : res[k].r

processing_successful(im, c, res) ==
  any_true(res) \/ (im = "preview" /\ configured(c) = {})

\* the finally block of run
finally_temp(c, t) == IF c.KEEP_TEMP_FILES THEN t ELSE FALSE

\* shutil.rmtree takes the files of the directory with it
finally_files(c, files) == IF c.KEEP_TEMP_FILES THEN files ELSE {}

\* what a failed final encode leaves at the target path
after_failed_write(im, ex, a, partial) ==
  IF im = "western" THEN (IF partial THEN ex \cup {a} ELSE ex) ELSE ex \ {a}

(***************************************************************************)
(* Inputs of the run.  Every input varies around the configuration of the  *)
(* class body (all three artifacts, mode 2, temp files not kept), with the *)
(* smallest segment count validate accepts for a sheet.                    *)
(***************************************************************************)
run_config(flags, m, k, g, bl, cf) ==
  [DefaultConfig EXCEPT
     !.CREATE_WEBP_PREVIEW = "preview" \in flags,
     !.CREATE_WEBP_PREVIEW_SHEET = "sheet" \in flags,
     !.CREATE_IMAGE_PREVIEW_SHEET = "image" \in flags,
     !.NUM_OF_SEGMENTS = IF "sheet" \in flags THEN 9 ELSE 3,
     !.GRID_WIDTH = 3,
     !.TIMESTAMPS_MODE = m,
     !.KEEP_TEMP_FILES = k,
     !.IGNORE_EXISTING = g,
     !.BLACKLISTED_CUT_POINTS = bl,
     !.CONFIRM_CUT_POINTS_REQUIRED = cf]

\* a configuration with the sheet requested and a given grid
grid_config(flags, n, g) ==
  [run_config(flags, 2, FALSE, TRUE, {}, FALSE) EXCEPT
     !.NUM_OF_SEGMENTS = n, !.GRID_WIDTH = g]

\* NUM_OF_SEGMENTS and GRID_WIDTH: the smallest valid grid, a count that is
\* no multiple of the width, a width that is neither 3 nor 4
Grids == { <<9, 3>>, <<10, 3>>, <<10, 5>> }

Durations == {8000000, 10000000, 12000000}

\* sources with at most one reason for rejection
Videos ==
  { [GoodVideo EXCEPT !.duration = d] : d \in Durations } \cup
  { [GoodVideo EXCEPT !.rot_probe_ok = FALSE],
    [GoodVideo EXCEPT !.rotation = 90],
    [GoodVideo EXCEPT !.probe_ok = FALSE],
    [GoodVideo EXCEPT !.codec_ok = FALSE] }

\* blacklist and CONFIRM_CUT_POINTS_REQUIRED
PlanVariants == { <<{}, FALSE>>, <<{515}, FALSE>>, <<{}, TRUE>> }

RunInput(im, c, v, ex, t) ==
  [impl |-> im, cfg |-> c, video |-> v, exists |-> ex, in_target |-> t]

\* which artifacts are configured, the overlay mode, KEEP_TEMP_FILES
ArtifactInputs ==
  { RunInput(im, run_config(flags, m, k, TRUE, {}, FALSE), GoodVideo, {}, FALSE) :
      im \in Impls, flags \in SUBSET Artifacts, m \in 0..2, k \in BOOLEAN }

\* what exists in the destination directory, IGNORE_EXISTING
ExistingInputs ==
  UNION { { RunInput(im, run_config(flags, 2, FALSE, g, {}, FALSE), GoodVideo,
                     ex, t) : ex \in SUBSET flags } :
          im \in Impls, flags \in SUBSET Artifacts, g \in BOOLEAN,
          t \in BOOLEAN }

\* the source video, the blacklist and the confirmation prompt
VideoInputs ==
  { RunInput(im, run_config(Artifacts, 2, k, TRUE, pv[1], pv[2]), v, {}, FALSE) :
      im \in Impls, k \in BOOLEAN, pv \in PlanVariants, v \in Videos }

\* the grid of the animated sheet
GridInputs ==
  { RunInput(im, grid_config({"sheet"}, g[1], g[2]), GoodVideo, {}, FALSE) :
      im \in Impls, g \in Grids }

\* main starts no run unless Config.validate() returned True
RunInputs ==
  { x \in ArtifactInputs \cup ExistingInputs \cup VideoInputs \cup GridInputs :
      validate(x.impl, x.cfg) }

Init ==
  /\ \E x \in RunInputs :
       /\ impl = x.impl
       /\ cfg = x.cfg
       /\ video = x.video
       /\ exists = x.exists
       /\ video_in_target = x.in_target
  /\ pc = "check"
  /\ Idle

\* a return outside the try block
Return(at) ==
  /\ pc' = "returned"
  /\ ret' = "false"
  /\ exit_at' = at

\* a return or an exception inside the try block: the finally block runs
ExitInTry(at) ==
  /\ pc' = "returned"
  /\ ret' = "false"
  /\ exit_at' = at
  /\ temp_dir' = finally_temp(cfg, temp_dir)
  /\ temp_files' = finally_files(cfg, temp_files)

CheckExisting ==
  /\ pc = "check"
  /\ \E o \in check_existing_outputs(impl, cfg, exists, video_in_target) :
       /\ faults + o.failed <= MaxFaults
       /\ faults' = faults + o.failed
       /\ exists' = exists \ Range(o.unlinked)
       /\ log' = log \o unlink_events(o.unlinked)
       /\ IF o.proceed
          THEN /\ pc' = IF impl = "western" THEN "metadata" ELSE "prepare"
               /\ UNCHANGED retVars
          ELSE Return(IF skip_existing(impl, cfg, configured(cfg) \ exists,
                                       video_in_target)
                      THEN "skip" ELSE "existing")
  /\ UNCHANGED <<inputVars, mainVars, planVars, duration, segVars, video_in_target,
                 tempVars, outVars>>

\* the calls of mkdir and shutil.move that can raise
PrepareFailures(im, in_target) ==
  CASE im = "preview" ->
         {"mkdir", "temp_mkdir"} \cup (IF in_target THEN {} ELSE {"move"})
    [] im = "jav" -> {"mkdir"}
    [] OTHER -> {"exception"}

\* output directory, the move of the video (preview.py), temp directory
Prepare ==
  /\ pc = "prepare"
  /\ \/ /\ temp_dir' = TRUE
        /\ video_in_target' = (impl = "preview" \/ video_in_target)
        /\ log' = IF impl = "preview" /\ ~video_in_target
                  THEN Append(log, Event("move", "video", 0)) ELSE log
        /\ pc' = IF impl = "western" THEN "plan" ELSE "metadata"
        /\ UNCHANGED <<retVars, faults>>
     \/ /\ faults < MaxFaults
        /\ faults' = faults + 1
        /\ \E at \in PrepareFailures(impl, video_in_target) :
             /\ Return(at)
             /\ video_in_target' =
                  (video_in_target \/ (impl = "preview" /\ at = "temp_mkdir"))
             /\ log' = IF impl = "preview" /\ at = "temp_mkdir" /\ ~video_in_target
                       THEN Append(log, Event("move", "video", 0)) ELSE log
        /\ temp_dir' = FALSE
  /\ UNCHANGED <<inputVars, mainVars, planVars, duration, segVars, exists, temp_files,
                 outVars>>

\* _get_metadata, then the check of the duration
GetMetadata ==
  /\ pc = "metadata"
  /\ log' = log \o probe_events(impl, video)
  /\ IF ~get_metadata(impl, video)
     THEN /\ Return("metadata")
          /\ duration' = duration
     ELSE /\ duration' = video.duration
          /\ IF too_short(video.duration)
             THEN Return("short")
             ELSE /\ pc' = IF impl = "western" THEN "prepare" ELSE "plan"
                  /\ UNCHANGED retVars
  /\ UNCHANGED <<inputVars, mainVars, planVars, segVars, fsVars, outVars, faults>>

\* _generate_cut_points and cut_points_sec
PlanCutPoints ==
  /\ pc = "plan"
  /\ LET r == generate_cut_points(impl, cfg.NUM_OF_SEGMENTS,
                                  cfg.BLACKLISTED_CUT_POINTS)
         answers == IF r.ok /\ r.points # << >> /\ confirm_prompted(impl, cfg)
                    THEN BOOLEAN ELSE {TRUE}
     IN  \E yes \in answers :
           /\ valid_points' = IF yes THEN r.points ELSE << >>
           /\ IF ~r.ok
              THEN ExitInTry("exception") /\ UNCHANGED cut_points_sec
              ELSE IF r.points = << >> \/ ~yes
              THEN ExitInTry("nocuts") /\ UNCHANGED cut_points_sec
              ELSE /\ cut_points_sec' =
                        [k \in 1..Len(r.points) |->
                           r.points[k] * (duration \div 1000)]
                   /\ pc' = "segments"
                   /\ UNCHANGED <<retVars, tempVars>>
  /\ UNCHANGED <<inputVars, mainVars, plan, attempts, duration, segment_files,
                 timestamped_segment_files, exists, video_in_target, outVars,
                 log, faults>>

\* subsets of S that the remaining fault budget allows to fail
MayFail(S, used) == {F \in SUBSET S : used + Cardinality(F) <= MaxFaults}

\* the body of _generate_segments for the failures EF and OF
generate_segments(EF, OF) ==
  /\ segment_files' = preview_segments(cfg, cut_points_sec, duration, EF, OF)
  /\ timestamped_segment_files' =
       sheet_segments_list(impl, cfg, cut_points_sec, duration, EF, OF)
  /\ log' = log \o segment_events(impl, cfg, cut_points_sec, duration, EF, OF, 1)
  /\ faults' = faults + Cardinality(EF) + Cardinality(OF)

\* the temp directory after _generate_segments
segments_written(EF, OF) ==
  { temp_files \cup
      segment_temp_files(cfg, cut_points_sec, duration, EF, OF, LO) :
    LO \in overlay_leftovers(impl, OF) }

\* the failures the fault budget allows
SegmentFailures ==
  LET att == attempted_cuts(cfg, cut_points_sec, duration)
  IN  UNION { { <<EF, OF>> :
                  OF \in MayFail(IF overlay_called(cfg) THEN att \ EF ELSE {},
                                 faults + Cardinality(EF)) } :
              EF \in MayFail(att, faults) }

\* _generate_segments and the check of its result
GenerateSegments ==
  /\ pc = "segments"
  /\ \/ \E x \in SegmentFailures :
          /\ generate_segments(x[1], x[2])
          /\ \E files \in segments_written(x[1], x[2]) :
               IF segment_files' = << >> /\
                  (impl # "preview" \/ configured(cfg) # {})
               THEN /\ Return("nosegs")
                    /\ temp_dir' = finally_temp(cfg, temp_dir)
                    /\ temp_files' = finally_files(cfg, files)
               ELSE /\ pc' = stage_after(cfg, "segments")
                    /\ temp_files' = files
                    /\ UNCHANGED <<retVars, temp_dir>>
     \/ /\ faults < MaxFaults
        /\ faults' = faults + 1
        /\ ExitInTry("exception")
        /\ UNCHANGED <<segment_files, timestamped_segment_files, log>>
  /\ UNCHANGED <<inputVars, mainVars, planVars, duration, cut_points_sec, exists,
                 video_in_target, outVars>>

PreviewFaultKinds == {"concat", "encode", "raise"}

\* _generate_webp_preview
BuildPreview ==
  /\ pc = "preview"
  /\ log' = Append(log, Event("build", "preview", 0))
  /\ \/ /\ results' = Append(results, Result("preview", TRUE, "ok"))
        /\ exists' = exists \cup {"preview"}
        /\ pc' = stage_after(cfg, "preview")
        /\ UNCHANGED <<retVars, tempVars, faults>>
     \/ /\ faults < MaxFaults
        /\ faults' = faults + 1
        /\ \E k \in PreviewFaultKinds :
             CASE k = "raise" ->
                    /\ ExitInTry("exception")
                    /\ UNCHANGED <<results, exists>>
               [] k = "concat" ->
                    /\ results' = Append(results, Result("preview", FALSE, k))
                    /\ pc' = stage_after(cfg, "preview")
                    /\ UNCHANGED <<retVars, tempVars, exists>>
               [] OTHER ->
                    /\ results' = Append(results, Result("preview", FALSE, k))
                    /\ \E partial \in BOOLEAN :
                         exists' = after_failed_write(impl, exists, "preview",
                                                      partial)
                    /\ pc' = stage_after(cfg, "preview")
                    /\ UNCHANGED <<retVars, tempVars>>
  /\ UNCHANGED <<inputVars, mainVars, planVars, duration, segVars, video_in_target,
                 segment_frame_files, h_stacked, image_sheet>>

\* _generate_webp_preview_sheet
BuildSheet ==
  /\ pc = "sheet"
  /\ log' = Append(log, Event("build", "sheet", 0))
  /\ LET segs == sheet_segments(impl, cfg, segment_files,
                                timestamped_segment_files)
         G == cfg.GRID_WIDTH
     IN  \E f \in {NoFault} \cup
                  (IF faults < MaxFaults THEN SheetFaults(impl, segs, G) ELSE {}) :
           LET b == sheet_build(impl, segs, G, f)
           IN  /\ faults' = IF f = NoFault THEN faults ELSE faults + 1
               /\ h_stacked' = b.rows
               /\ IF f.kind = "raise"
                  THEN /\ ExitInTry("exception")
                       /\ UNCHANGED <<results, exists>>
                  ELSE /\ results' = Append(results, Result("sheet", b.ok, b.why))
                       /\ pc' = stage_after(cfg, "sheet")
                       /\ UNCHANGED <<retVars, tempVars>>
                       /\ IF b.ok THEN exists' = exists \cup {"sheet"}
                          ELSE IF b.why = "encode"
                          THEN \E partial \in BOOLEAN :
                                 exists' = after_failed_write(impl, exists,
                                                              "sheet", partial)
                          ELSE exists' = exists
  /\ UNCHANGED <<inputVars, mainVars, planVars, duration, segVars, video_in_target,
                 segment_frame_files, image_sheet>>

\* _extract_segment_frames, then _generate_image_preview_sheet if any frame
BuildImage ==
  /\ pc = "image"
  /\ \E FF \in MayFail(1..Len(segment_files), faults) :
       LET frames == extract_segment_frames(segment_files, FF)
           used == faults + Cardinality(FF)
           drawn(PF) == [rows |-> image_rows(impl, cfg, Len(frames)),
                         cells |-> image_cells_drawn(impl, cfg, frames, PF),
                         painted |->
                           image_cells_painted(impl, cfg, frames, PF)]
       IN  /\ segment_frame_files' = frames
           /\ IF frames = << >>
              THEN /\ log' = log \o frame_events(segment_files)
                   /\ results' = Append(results, Result("image", FALSE, "no_frames"))
                   /\ faults' = used
                   /\ pc' = "finish"
                   /\ UNCHANGED <<retVars, tempVars, exists, image_sheet>>
              ELSE
                /\ log' = (log \o frame_events(segment_files))
                            \o <<Event("build", "image", 0)>>
                /\ \/ \E PF \in MayFail(1..Len(frames), used) :
                        /\ faults' = used + Cardinality(PF)
                        /\ image_sheet' = drawn(PF)
                        /\ results' = Append(results, Result("image", TRUE, "ok"))
                        /\ exists' = exists \cup {"image"}
                        /\ pc' = "finish"
                        /\ UNCHANGED <<retVars, tempVars>>
                   \/ /\ used < MaxFaults
                      /\ faults' = used + 1
                      /\ \E k \in ImageFaultKinds :
                           CASE k = "raise" ->
                                  /\ ExitInTry("exception")
                                  /\ UNCHANGED <<results, exists, image_sheet>>
                             [] k = "save" ->
                                  /\ image_sheet' = drawn({})
                                  /\ results' =
                                       Append(results, Result("image", FALSE, k))
                                  /\ \E partial \in BOOLEAN :
                                       exists' = IF partial
                                                 THEN exists \cup {"image"}
                                                 ELSE exists
                                  /\ pc' = "finish"
                                  /\ UNCHANGED <<retVars, tempVars>>
                             [] OTHER ->
                                  /\ results' =
                                       Append(results, Result("image", FALSE, k))
                                  /\ pc' = "finish"
                                  /\ UNCHANGED <<retVars, tempVars, exists,
                                                 image_sheet>>
  /\ UNCHANGED <<inputVars, mainVars, planVars, duration, segVars, video_in_target,
                 h_stacked>>

\* the end of the try block, the finally block and the return
Finish ==
  /\ pc = "finish"
  /\ LET ok == processing_successful(impl, cfg, results)
     IN  /\ ret' = IF ok THEN "true" ELSE "false"
         /\ IF impl = "western" /\ ok /\ ~video_in_target
            THEN \/ /\ video_in_target' = TRUE
                    /\ log' = Append(log, Event("move", "video", 0))
                    /\ faults' = faults
                 \/ /\ faults < MaxFaults
                    /\ faults' = faults + 1
                    /\ UNCHANGED <<video_in_target, log>>
            ELSE UNCHANGED <<video_in_target, log, faults>>
  /\ exit_at' = "end"
  /\ pc' = "returned"
  /\ temp_dir' = finally_temp(cfg, temp_dir)
  /\ temp_files' = finally_files(cfg, temp_files)
  /\ UNCHANGED <<inputVars, mainVars, planVars, duration, segVars, exists, outVars>>

Next ==
  \/ CheckExisting
  \/ Prepare
  \/ GetMetadata
  \/ PlanCutPoints
  \/ GenerateSegments
  \/ BuildPreview
  \/ BuildSheet
  \/ BuildImage
  \/ Finish

Spec == Init /\ [][Next]_vars

(***************************************************************************)
(* _generate_segments on its own: any list of cut points, any duration.    *)
(***************************************************************************)
MaxCuts == 3

CutCandidates == {50000, 600000, 995000, 1000000, 1200000}

SegmentDurations == {1000000, 2000000}

CutLists ==
  { sorted(S) : S \in {T \in SUBSET CutCandidates :
                         T # {} /\ Cardinality(T) <= MaxCuts} }

SegmentsInit ==
  /\ impl \in Impls
  /\ \E m \in 0..2 : cfg = [DefaultConfig EXCEPT !.TIMESTAMPS_MODE = m]
  /\ video = GoodVideo
  /\ pc = "segments_call"
  /\ exists = {}
  /\ video_in_target = FALSE
  /\ plan = plan_init
  /\ valid_points = << >>
  /\ attempts = 0
  /\ duration \in SegmentDurations
  /\ cut_points_sec \in CutLists
  /\ segment_files = << >>
  /\ timestamped_segment_files = << >>
  /\ segment_frame_files = << >>
  /\ results = << >>
  /\ ret = "none"
  /\ exit_at = "none"
  /\ temp_dir = TRUE
  /\ temp_files = {}
  /\ batch = NoBatch
  /\ folder = NoFolder
  /\ layout = NoLayout
  /\ log = << >>
  /\ faults = 0
  /\ h_stacked = << >>
  /\ image_sheet = NoImage

SegmentsCall ==
  /\ pc = "segments_call"
  /\ \E x \in SegmentFailures :
       /\ generate_segments(x[1], x[2])
       /\ temp_files' \in segments_written(x[1], x[2])
  /\ pc' = "segments_returned"
  /\ UNCHANGED <<inputVars, mainVars, planVars, duration, cut_points_sec, exists,
                 video_in_target, temp_dir, outVars, retVars>>

SegmentsNext == SegmentsCall

SpecSegments == SegmentsInit /\ [][SegmentsNext]_vars

(***************************************************************************)
(* Claims about the run of one video.                                      *)
(***************************************************************************)
\* the artifacts whose build step returned True in this run
produced == {results[k].a : k \in {j \in 1..Len(results) : results[j].r}}

\* the artifacts whose build step returned False in this run
failed_builds == {results[k].a : k \in {j \in 1..Len(results) : ~results[j].r}}

\* What run does guarantee: with at least one artifact configured, run
\* returns true if and only if some configured artifact was produced and the
\* try block ran to its end without an exception; a build step that reports
\* failure does not turn the result to false, and a produced artifact is in
\* the destination directory.
C1_TrueIffProducedAndNoException ==
  (pc = "returned" /\ configured(cfg) # {})
  => /\ (ret = "true") <=> (produced # {} /\ exit_at = "end")
     /\ produced \subseteq (configured(cfg) \cap exists)

\* a run that returned true although a configured artifact failed
C1_Witness ==
  /\ pc = "returned"
  /\ ret = "true"
  /\ produced # {}
  /\ failed_builds # {}

\* C1 as stated: run returns true if and only if at least one configured
\* artifact was produced by this run.
C1_Original ==
  (pc = "returned" /\ configured(cfg) # {})
  => ((ret = "true") <=> (produced # {}))

C3_ShortVideoFailsBeforeExtraction ==
  /\ (duration # 0 /\ duration <= 10000000)
       => (pc = "returned" /\ ret = "false" /\ exit_at = "short")
  /\ video.duration <= 10000000
       => (calls("extract") = << >> /\ ret # "true")

\* an 8 s video, probed and rejected
C3_Witness ==
  /\ pc = "returned"
  /\ exit_at = "short"
  /\ duration = 8000000
  /\ calls("probe") # << >>
  /\ calls("extract") = << >>

FatalForVideo ==
  \/ ~video.probe_ok
  \/ video.rotation # 0
  \/ ~video.codec_ok
  \/ video.duration <= 10000000
  \/ exit_at \in {"nocuts", "nosegs"}

\* C4: whenever a FatalForVideo condition holds (probe failure, rotation
\* tag, unsupported codec, duration at most 10 s, no cut points, no
\* segments), run returns failure and attempts no artifact build.
C4_FatalNoBuild ==
  FatalForVideo
  => /\ calls("build") = << >>
     /\ calls("frame") = << >>
     /\ ret # "true"

\* C8: for S >= 1 segments and grid width G the animated-sheet composer
\* hands ceil(S/G) rows of exactly G entries to horizontal stacking, and a
\* short final row does not make the sheet fail.
C8_RowsOfExactlyG ==
  \A k \in 1..Len(results) :
    (results[k].a = "sheet" /\
     results[k].why \in {"ok", "short_row", "vstack", "encode"})
    => LET S == Len(sheet_segments(impl, cfg, segment_files,
                                   timestamped_segment_files))
       IN  /\ Len(h_stacked) = (S + cfg.GRID_WIDTH - 1) \div cfg.GRID_WIDTH
           /\ \A r \in 1..Len(h_stacked) : Len(h_stacked[r]) = cfg.GRID_WIDTH
           /\ results[k].why # "short_row"

\* C9: when frame extraction fails for k of the N segments, 0 < k < N, the
\* static sheet has a placeholder exactly at the cell of every segment whose
\* frame failed, and every other cell shows the frame of its own segment.
C9_PlaceholdersAtFailedSegments ==
  \A k \in 1..Len(results) :
    ( /\ results[k].a = "image" /\ results[k].r
      /\ Len(segment_files) = cfg.NUM_OF_SEGMENTS
      /\ Len(segment_frame_files) < cfg.NUM_OF_SEGMENTS )
    => /\ Len(image_sheet.cells) = cfg.NUM_OF_SEGMENTS
       /\ \A idx \in 1..Len(image_sheet.cells) :
            image_sheet.cells[idx] =
              IF idx \in Range(segment_frame_files)
              THEN Frame(idx) ELSE Placeholder

\* C10: with KEEP_TEMP_FILES unset, the <base>-temp directory does not exist
\* after run has returned, whatever the exit.
C10_TempRemovedAtEveryExit ==
  (pc = "returned" /\ ~cfg.KEEP_TEMP_FILES) => ~temp_dir

(***************************************************************************)
(* Claims about _generate_segments.                                        *)
(***************************************************************************)
\* C7: every accepted segment has start + cut_duration <= duration, with
\* cut_duration = min(SEGMENT_DURATION, duration - start) > 0.01 s; a cut
\* point at or past the duration, or with at most 0.01 s left, gets no
\* transcode call and no segment.
C7_AcceptedSegmentsFit ==
  pc = "segments_returned"
  => /\ \A k \in 1..Len(segment_files) :
          LET sg == segment_files[k]
          IN  /\ sg.start + sg.cut <= duration
              /\ sg.cut = Min({cfg.SEGMENT_DURATION, duration - sg.start})
              /\ sg.cut > 10000
     /\ \A i \in 1..Len(cut_points_sec) :
          ( \/ cut_points_sec[i] >= duration
            \/ Min({cfg.SEGMENT_DURATION, duration - cut_points_sec[i]}) <= 10000 )
          => /\ \A e \in Range(log) : ~(e.op = "extract" /\ e.i = i)
             /\ \A k \in 1..Len(segment_files) : segment_files[k].seg # i

\* a call that accepted a segment cut short by the end of the video and
\* skipped a cut point with too little left
C7_Witness ==
  /\ pc = "segments_returned"
  /\ \E k \in 1..Len(segment_files) :
       segment_files[k].cut < cfg.SEGMENT_DURATION
  /\ \E i \in 1..Len(cut_points_sec) :
       /\ cut_points_sec[i] < duration
       /\ duration - cut_points_sec[i] <= 10000
       /\ \A e \in Range(log) : e.i # i

overlay_failures ==
  {e.i : e \in {x \in Range(log) : x.op = "overlay" /\ x.a = "failed"}}

\* the combinations validation is there to reject
valid_grid(c) ==
  /\ c.GRID_WIDTH \in {3, 4}
  /\ c.NUM_OF_SEGMENTS % c.GRID_WIDTH = 0
  /\ IF c.GRID_WIDTH = 3
     THEN 9 <= c.NUM_OF_SEGMENTS /\ c.NUM_OF_SEGMENTS <= 30
     ELSE 12 <= c.NUM_OF_SEGMENTS /\ c.NUM_OF_SEGMENTS <= 28

\* C12: when the timestamp overlay of a verified segment fails (modes 1 and
\* 2), the segment is still accepted, its un-overlaid clip is the one used
\* for the standalone preview and for the sheet, the un-overlaid file stays
\* in the temp directory, and the run is not aborted.
C12_OverlayFailureFallsBack ==
  \A i \in overlay_failures :
    /\ \E k \in 1..Len(segment_files) :
         segment_files[k].seg = i /\ ~segment_files[k].ts
    /\ LET sh == sheet_segments(impl, cfg, segment_files,
                                timestamped_segment_files)
       IN  \E k \in 1..Len(sh) : sh[k].seg = i /\ ~sh[k].ts
    /\ (pc # "returned" \/ cfg.KEEP_TEMP_FILES)
         => SegFile(i, FALSE) \in temp_files
    /\ (pc = "returned" /\ faults = Cardinality(overlay_failures))
         => /\ exit_at = "end"
            /\ (configured(cfg) # {} /\ valid_grid(cfg)) => ret = "true"

\* a run that produced the preview and the sheet after a failed overlay
C12_Witness ==
  /\ pc = "returned"
  /\ overlay_failures # {}
  /\ ret = "true"
  /\ {"preview", "sheet"} \subseteq produced

\* the artifacts whose build was started: the image sheet's build starts
\* with the extraction of the frames
attempted_builds ==
  {e.a : e \in {x \in Range(log) : x.op = "build"}} \cup
  (IF calls("frame") # << >> THEN {"image"} ELSE {})

\* C13: a failure while building one configured artifact does not prevent
\* the build of every other configured artifact from being attempted in the
\* same run.
C13_SiblingBuildsAttempted ==
  (pc = "returned" /\ attempted_builds # {})
  => configured(cfg) \subseteq attempted_builds

\* C16: after run returns, no file exists at the target path of an artifact
\* whose build in this run reported failure.
C16_NoFileForFailedArtifact ==
  pc = "returned" => \A a \in failed_builds : a \notin exists

\* C17: whenever run returns failure for a video, the source video is still
\* at its original path: it is moved into the destination directory only
\* once processing has succeeded.
C17_MovedOnlyOnSuccess ==
  (pc = "returned" /\ ret = "false") => calls("move") = << >>

\* the calls of ffprobe and ffmpeg
external_ops == {"probe", "extract", "overlay", "build", "frame"}

\* the existing configured artifacts were deleted, in order, before any
\* external call, and the run goes on
deleted_and_proceeds ==
  /\ configured(cfg) \cap exists' = {}
  /\ log' = unlink_events(in_order(configured(cfg) \cap exists))
  /\ pc' \in {"prepare", "metadata"}
  /\ ret' = "none"

MaxVideos == 3

Outcomes(im) ==
  {"true", "false", "raise", "interrupt", "true_interrupt"} \cup
  (IF im = "jav" THEN {"nocode"} ELSE {})

Batches(im) == UNION { [1..n -> Outcomes(im)] : n \in 0..MaxVideos }

\* run returned True and the loop counted the success
run_result(o) == o \in {"true", "true_interrupt"}

\* VideoProcessor(...).run() is called for the video; Jav+Preview.py skips
\* a file whose name has no JAV code
run_started(im, o) == o # "nocode"

\* variant: a failed video ends the loop
stops_on_failure(im, o) == o \in {"true", "nocode"}

\* variant: KeyboardInterrupt handled like any other exception
never_stops(im, o) == TRUE

\* the loop goes on to the next video: only except KeyboardInterrupt breaks,
\* and in Jav+Preview.py, which has no such handler, the interrupt leaves run
loop_continues(im, o) == o \notin {"interrupt", "true_interrupt"}

\* where an interruption leaves main
interrupted_state(im) == IF im = "jav" THEN "died" ELSE "interrupted"

\* failure_count of preview.py; the others keep no such counter
failure_count(im, o, total, i, n) ==
  IF im # "preview" THEN n
  ELSE CASE o \in {"false", "raise"} -> n + 1
         [] o \in {"interrupt", "true_interrupt"} -> n + (total - (i - 1))
         [] OTHER -> n

\* the loop of Jav+Preview.py moves the video after run returned, true or
\* false, unless the target exists or the move fails
loop_moves(im, o) ==
  IF im = "jav" /\ o \in {"true", "false", "true_interrupt"}
  THEN BOOLEAN ELSE {FALSE}

\* the configurations main is started with: the class body, and the grids
\* with the animated sheet or only the static sheet requested
BatchConfigs ==
  {DefaultConfig} \cup
  { grid_config({a}, g[1], g[2]) : a \in {"sheet", "image"}, g \in Grids }

batchUnchanged ==
  UNCHANGED <<inputVars, pc, planVars, duration, segVars, fsVars, outVars,
              retVars, log, faults, folder, layout>>

BatchInit ==
  /\ impl \in Impls
  /\ cfg \in BatchConfigs
  /\ video = GoodVideo
  /\ pc = "main"
  /\ exists = {}
  /\ video_in_target = FALSE
  /\ plan = plan_init
  /\ valid_points = << >>
  /\ attempts = 0
  /\ duration = 0
  /\ cut_points_sec = << >>
  /\ segment_files = << >>
  /\ timestamped_segment_files = << >>
  /\ segment_frame_files = << >>
  /\ results = << >>
  /\ ret = "none"
  /\ exit_at = "none"
  /\ temp_dir = FALSE
  /\ temp_files = {}
  /\ log = << >>
  /\ faults = 0
  /\ h_stacked = << >>
  /\ image_sheet = NoImage
  /\ folder = NoFolder
  /\ layout = NoLayout
  /\ \E vs \in Batches(impl) :
       batch = [NoBatch EXCEPT !.videos = vs, !.state = "validate"]

\* what main does with the value of Config.validate()
validated(im, c) == validate(im, c)

\* if not Config.validate(): sys.exit(1)
BatchValidate ==
  /\ batch.state = "validate"
  /\ batch' = [batch EXCEPT
                 !.state = IF validated(impl, cfg) THEN "loop" ELSE "rejected"]
  /\ batchUnchanged

\* one pass of the for loop
BatchIterate ==
  /\ batch.state = "loop"
  /\ batch.i <= Len(batch.videos)
  /\ LET o == batch.videos[batch.i]
         go == loop_continues(impl, o)
     IN  \E mv \in loop_moves(impl, o) :
           batch' =
             [batch EXCEPT
                !.processed_count = @ + 1,
                !.started = IF run_started(impl, o)
                            THEN Append(@, batch.i) ELSE @,
                !.success_count = IF run_result(o) THEN @ + 1 ELSE @,
                !.failure_count =
                   failure_count(impl, o, Len(batch.videos), batch.i, @),
                !.moved = IF mv THEN @ \cup {batch.i} ELSE @,
                !.i = IF go THEN @ + 1 ELSE @,
                !.state = IF go THEN "loop" ELSE interrupted_state(impl)]
  /\ batchUnchanged

\* the list is exhausted: the summary is logged
BatchEnd ==
  /\ batch.state = "loop"
  /\ batch.i > Len(batch.videos)
  /\ batch' = [batch EXCEPT !.state = "done"]
  /\ batchUnchanged

BatchNext == BatchValidate \/ BatchIterate \/ BatchEnd

SpecBatch == BatchInit /\ [][BatchNext]_vars

\* C14 (as amended): a video whose run returns failure or raises an ordinary
\* exception does not stop the batch: the loop moves on, runs are started in
\* scan order, and when the loop has ended a run was started for every later
\* video (in Jav+Preview.py: every later video whose name has a JAV code).
C14_FailureDoesNotStopBatch ==
  /\ StrictlyIncreasing(batch.started)
  /\ \A j \in Range(batch.started) :
       batch.videos[j] \in {"false", "raise"}
       => /\ batch.i > j
          /\ batch.state = "done"
             => \A k \in (j + 1)..Len(batch.videos) :
                  (impl = "jav" => batch.videos[k] # "nocode")
                  => k \in Range(batch.started)

\* a finished batch whose first video failed and whose last video was run
C14_Witness ==
  /\ batch.state = "done"
  /\ Len(batch.videos) = MaxVideos
  /\ batch.videos[1] \in {"false", "raise"}
  /\ 1 \in Range(batch.started)
  /\ MaxVideos \in Range(batch.started)

\* C14 as stated: run is started for every later video of the batch.
C14_Original ==
  \A j \in Range(batch.started) :
    (batch.videos[j] \in {"false", "raise"} /\ batch.state = "done")
    => \A k \in (j + 1)..Len(batch.videos) : k \in Range(batch.started)

\* C15: when KeyboardInterrupt arrives during the run of a video, the loop
\* ends: no run is started for any later video.
C15_InterruptEndsBatch ==
  \A j \in Range(batch.started) :
    batch.videos[j] \in {"interrupt", "true_interrupt"}
    => /\ batch.state \in {"interrupted", "died"}
       /\ batch.i = j
       /\ \A k \in (j + 1)..Len(batch.videos) : k \notin Range(batch.started)

\* an interrupted batch with videos left
C15_Witness ==
  /\ batch.state \in {"interrupted", "died"}
  /\ batch.i < Len(batch.videos)
  /\ batch.i \in Range(batch.started)
  /\ batch.videos[batch.i] = "interrupt"

\* C19: an invalid grid-width / segment-count combination is rejected by
\* configuration validation before the run of any video starts, whichever
\* artifact types are enabled.
C19_InvalidGridRejectedBeforeRuns ==
  ~valid_grid(cfg) => (batch.state \in {"validate", "rejected"} /\
                       batch.started = << >>)

(***************************************************************************)
(* File names and the paths a VideoProcessor derives from them.  A stem is *)
(* a sequence of characters; "a_acute" stands for the one character        *)
(* U+00E1 and "cjk" for one CJK ideograph.  The names appended to a base   *)
(* file name ("-temp", "_preview.webp", ...) and the root directories are  *)
(* kept as single tokens.                                                  *)
(***************************************************************************)
MaxFiles == 2

Letters == {"a", "b", "A"}
Digits == {"1", "2"}

\* unicodedata.normalize('NFKD', c).encode('ascii', 'ignore').decode('ascii')
nfkd_ascii(ch) ==
  CASE ch = "a_acute" -> <<"a">>
    [] ch = "cjk" -> << >>
    [] OTHER -> <<ch>>

RECURSIVE normalized(_)
normalized(s) ==
  IF s = << >> THEN << >> ELSE nfkd_ascii(Head(s)) \o normalized(Tail(s))

\* the characters the first re.sub turns into an underscore:
\* [^\w.\-] in preview.py, [<>:"/\|?*'\s] in the other two
replaced(im, ch) ==
  IF im = "preview"
  THEN ch \notin Letters \cup Digits \cup {"_", ".", "-"}
  ELSE ch \in {" ", "?"}

substituted(im, s) ==
  [k \in 1..Len(s) |-> IF replaced(im, s[k]) THEN "_" ELSE s[k]]

\* re.sub(r'_+', '_', s)
RECURSIVE collapsed(_)
collapsed(s) ==
  IF Len(s) < 2 THEN s
  ELSE IF s[1] = "_" /\ s[2] = "_" THEN collapsed(Tail(s))
  ELSE <<s[1]>> \o collapsed(Tail(s))

\* strip('_.') in preview.py, strip('_') in the other two
strip_chars(im) == IF im = "preview" THEN {"_", "."} ELSE {"_"}

RECURSIVE lstrip(_, _)
lstrip(s, cs) ==
  IF s # << >> /\ Head(s) \in cs THEN lstrip(Tail(s), cs) ELSE s

RECURSIVE rstrip(_, _)
rstrip(s, cs) ==
  IF s # << >> /\ s[Len(s)] \in cs
  THEN rstrip(SubSeq(s, 1, Len(s) - 1), cs) ELSE s

\* random.randint(1000, 9999), as text: two of the values
Randoms == {"1000", "1001"}

\* sanitize_filename, r the number drawn when nothing is left
sanitize_filename(im, s, r) ==
  LET sanitized ==
        rstrip(lstrip(collapsed(substituted(im, normalized(s))),
                      strip_chars(im)), strip_chars(im))
  IN  IF sanitized # << >> THEN sanitized ELSE <<"sanitized_", r>>

\* the number of characters of s from position p on that are in cs
RECURSIVE span(_, _, _)
span(s, p, cs) ==
  IF p <= Len(s) /\ s[p] \in cs THEN 1 + span(s, p + 1, cs) ELSE 0

NoCode == << >>

upper(ch) == CASE ch = "a" -> "A" [] ch = "b" -> "B" [] OTHER -> ch
lower(ch) == CASE ch = "A" -> "a" [] ch = "B" -> "b" [] OTHER -> ch

\* JAV_CODE_REGEX ([A-Za-z]{2,5})-?(\d{2,5}) tried at position p: the run of
\* letters from p must be 2 to 5 long, since a shorter group 1 is followed
\* by a letter; group 2 takes up to 5 digits
match_at(s, p) ==
  LET l == span(s, p, Letters)
      q == p + l
      h == IF q <= Len(s) /\ s[q] = "-" THEN 1 ELSE 0
      d == span(s, q + h, Digits)
  IN  IF l \in 2..5 /\ d >= 2
      THEN <<SubSeq(s, p, q - 1), SubSeq(s, q + h, q + h + Min({d, 5}) - 1)>>
      ELSE NoCode

\* extract_jav_code on the name without its extension: search takes the
\* leftmost match; the code is PREFIX-number
extract_jav_code(s) ==
  LET ps == {p \in 1..Len(s) : match_at(s, p) # NoCode}
  IN  IF ps = {} THEN NoCode
      ELSE LET m == match_at(s, Min(ps))
           IN  [k \in 1..Len(m[1]) |-> upper(m[1][k])] \o <<"-">> \o m[2]

\* self.output_dir
output_dir(im, s, base) ==
  IF im = "jav"
  THEN LET jav_code == extract_jav_code(s)
       IN  <<"VIDEO_DIR">> \o [k \in 1..Len(jav_code) |-> lower(jav_code[k])]
  ELSE <<"INPUT_FOLDER">> \o base

\* the name of an artifact behind the base file name
artifact_suffix(a) ==
  CASE a = "preview" -> "_preview.webp"
    [] a = "sheet" -> "_preview_sheet.webp"
    [] a = "image" -> "_preview_sheet.png"

\* the attributes __init__ derives from the path of the video, and the
\* paths of the artifacts the configuration asks for
VideoProcessor(im, c, f, r) ==
  LET base_filename == sanitize_filename(im, f.stem, r)
      dir == output_dir(im, f.stem, base_filename)
  IN  [video_path |-> f,
       base_filename |-> base_filename,
       output_dir |-> dir,
       temp_dir |-> [dir |-> dir, name |-> base_filename \o <<"-temp">>],
       targets |-> { [dir |-> dir,
                      name |-> base_filename \o <<artifact_suffix(a)>>] :
                     a \in configured(c) }]

\* the stems of the files in the input folder
Stems ==
  { <<"a">>, <<"a", "b">>, <<"a", " ", "b">>, <<"a", "_", "b">>,
    <<"a", "!", "b">>, <<"a_acute">>, <<"cjk">>, <<".", "a">>,
    <<"a", "b", "1", "2">>, <<"A", "b", "-", "1", "2">>,
    <<"a", "b", "1", "2", " ">> }

\* VALID_VIDEO_EXTENSIONS, two of them
Extensions == {".mp4", ".mkv"}

Files == [stem : Stems, ext : Extensions]

\* what iterdir yields: files of one folder have different names
Folders ==
  UNION { {fs \in [1..n -> Files] :
             \A j, k \in 1..n : j # k => fs[j] # fs[k]} : n \in 1..MaxFiles }

PathsInit ==
  /\ impl \in Impls
  /\ cfg = DefaultConfig
  /\ video = GoodVideo
  /\ pc = "main"
  /\ exists = {}
  /\ video_in_target = FALSE
  /\ plan = plan_init
  /\ valid_points = << >>
  /\ attempts = 0
  /\ duration = 0
  /\ cut_points_sec = << >>
  /\ segment_files = << >>
  /\ timestamped_segment_files = << >>
  /\ segment_frame_files = << >>
  /\ results = << >>
  /\ ret = "none"
  /\ exit_at = "none"
  /\ temp_dir = FALSE
  /\ temp_files = {}
  /\ log = << >>
  /\ faults = 0
  /\ h_stacked = << >>
  /\ image_sheet = NoImage
  /\ batch = NoBatch
  /\ layout = NoLayout
  /\ \E fs \in Folders : folder = [NoFolder EXCEPT !.files = fs, !.state = "loop"]

pathsUnchanged ==
  UNCHANGED <<inputVars, pc, planVars, duration, segVars, fsVars, outVars,
              retVars, log, faults, batch, layout>>

\* one pass of the loop for a video whose run succeeds: with IGNORE_EXISTING
\* the targets that exist are unlinked, then every artifact is written
PathsIterate ==
  /\ folder.state = "loop"
  /\ folder.i <= Len(folder.files)
  /\ LET f == folder.files[folder.i]
     IN  IF impl = "jav" /\ extract_jav_code(f.stem) = NoCode
         THEN folder' = [folder EXCEPT !.i = @ + 1]
         ELSE \E r \in Randoms :
                LET p == VideoProcessor(impl, cfg, f, r)
                    old == {e \in folder.disk : e.path \in p.targets}
                IN  folder' =
                      [folder EXCEPT
                         !.i = @ + 1,
                         !.processors = Append(@, p),
                         !.disk = (@ \ old) \cup
                                  {[path |-> t, owner |-> f] : t \in p.targets},
                         !.lost = @ \cup {e \in old : e.owner # f}]
  /\ pathsUnchanged

PathsEnd ==
  /\ folder.state = "loop"
  /\ folder.i > Len(folder.files)
  /\ folder' = [folder EXCEPT !.state = "done"]
  /\ pathsUnchanged

PathsNext == PathsIterate \/ PathsEnd

SpecPaths == PathsInit /\ [][PathsNext]_vars

\* C20: for any two distinct video files of one batch the workspace
\* directory and the target artifact paths are distinct, so the run of one
\* video never deletes or overwrites the artifacts of another.
C20_DistinctFilesDistinctPaths ==
  /\ \A j, k \in 1..Len(folder.processors) :
       j # k => /\ folder.processors[j].temp_dir # folder.processors[k].temp_dir
                /\ folder.processors[j].targets \cap
                     folder.processors[k].targets = {}
  /\ folder.lost = {}

(***************************************************************************)
(* Claims about _generate_segments, continued                              *)
(***************************************************************************)
\* the segments whose overlay call returned a path
overlay_successes ==
  {e.i : e \in {x \in Range(log) : x.op = "overlay" /\ x.a = "ok"}}

\* every entry of list l for segment i is the overlaid (ts) or the
\* un-overlaid clip, and there is one
uses(l, i, ts) ==
  /\ \E k \in 1..Len(l) : l[k].seg = i
  /\ \A k \in 1..Len(l) : l[k].seg = i => l[k].ts = ts

\* C21: for every verified segment whose overlay succeeds, in mode 1 the
\* standalone preview and the animated sheet both use the overlaid clip, in
\* mode 2 the sheet uses the overlaid clip and the preview the un-overlaid
\* one; in mode 0 no overlay call is made and both use the un-overlaid
\* clip.  The same in the three generators.
C21_VariantPerMode ==
  pc = "segments_returned" =>
    LET sh == sheet_segments(impl, cfg, segment_files,
                             timestamped_segment_files)
    IN  /\ cfg.TIMESTAMPS_MODE = 1 =>
             \A i \in overlay_successes :
               uses(segment_files, i, TRUE) /\ uses(sh, i, TRUE)
        /\ cfg.TIMESTAMPS_MODE = 2 =>
             \A i \in overlay_successes :
               uses(segment_files, i, FALSE) /\ uses(sh, i, TRUE)
        /\ cfg.TIMESTAMPS_MODE = 0 =>
             /\ calls("overlay") = << >>
             /\ Len(sh) = Len(segment_files)
             /\ \A k \in 1..Len(sh) :
                  uses(segment_files, sh[k].seg, FALSE) /\
                  uses(sh, segment_files[k].seg, FALSE)

\* mode 2 in Western+preview.py with two overlaid segments and a failed one
C21_Witness ==
  /\ pc = "segments_returned"
  /\ impl = "western"
  /\ cfg.TIMESTAMPS_MODE = 2
  /\ Cardinality(overlay_successes) >= 2
  /\ overlay_failures # {}

C23_TwoCleanBoundariesOrEmpty ==
  ( /\ pc \in {"plan_returned", "plan_raised"}
    /\ cfg.NUM_OF_SEGMENTS >= 2
    /\ cfg.BLACKLISTED_CUT_POINTS \cap {START_PCT, END_PCT} # {} )
  => /\ pc = "plan_returned"
     /\ \/ valid_points = << >>
        \/ /\ StrictlyIncreasing(valid_points)
           /\ valid_points[1] = plan.start_pct.v
           /\ valid_points[Len(valid_points)] = plan.end_pct.v
           /\ plan.start_pct.v \notin cfg.BLACKLISTED_CUT_POINTS
           /\ plan.end_pct.v \notin cfg.BLACKLISTED_CUT_POINTS

\* the range moved inwards by d thousandths at each end
shrunk_by(d) ==
  /\ plan'.start_pct.v = plan.start_pct.v + d
  /\ plan'.end_pct.v = plan.end_pct.v - d

\* the iteration finds fewer than two usable boundaries
boundary_blocked ==
  /\ cfg.NUM_OF_SEGMENTS >= 2
  /\ Cardinality(boundary_points(plan, cfg.BLACKLISTED_CUT_POINTS)) < 2

\* C24: the planner loop ends after at most 2 attempts in total: a boundary
\* adjustment (0.01 at each end) and a shortfall adjustment (0.005 at each
\* end) each take one attempt of the same budget, and with the budget used
\* up the planner returns an empty result.
C24_SharedRetryBudget ==
  /\ [](attempts <= RETRIES)
  /\ [](pc = "plan_loop" => plan.retries = RETRIES - attempts)
  /\ [][ (pc = "plan_loop" /\ pc' = "plan_loop")
         => /\ attempts' = attempts + 1
            /\ plan'.retries = plan.retries - 1
            /\ IF impl # "jav" /\ boundary_blocked
               THEN shrunk_by(BOUNDARY_ADJUST)
               ELSE shrunk_by(SHORTFALL_ADJUST) ]_vars
  /\ [][ (pc = "plan_loop" /\ plan.retries = 0 /\ pc' # "plan_loop")
         => (pc' = "plan_returned" /\ valid_points' = << >>) ]_vars

\* one adjustment of each kind, then the empty result
C24_Witness ==
  /\ pc = "plan_returned"
  /\ impl = "preview"
  /\ attempts = RETRIES
  /\ plan.retries = 0
  /\ plan.start_pct.v = START_PCT + BOUNDARY_ADJUST + SHORTFALL_ADJUST
  /\ valid_points = << >>

(***************************************************************************)
(* Claims about the order of the stages of run                             *)
(***************************************************************************)
\* the stage an external call belongs to: 1 existing-output check,
\* 2 metadata probe, 4 segment extraction, 5 artifact builds; 0 for the
\* move of the source video, which is no stage
stage_of(e) ==
  CASE e.op = "unlink" /\ e.a \in Artifacts -> 1
    [] e.op = "probe" -> 2
    [] e.op \in {"extract", "overlay"} -> 4
    [] e.op = "unlink" -> 4
    [] e.op \in {"build", "frame"} -> 5
    [] OTHER -> 0

stages_logged == {stage_of(log[k]) : k \in 1..Len(log)} \ {0}

\* the last stage a run that left by exit x had entered
last_stage(x) ==
  CASE x \in {"skip", "existing", "mkdir", "move", "temp_mkdir"} -> 1
    [] x \in {"metadata", "short", "nocuts"} -> 2
    [] x = "nosegs" -> 4
    [] OTHER -> 5

\* C25: in every run the stages occur in the order existing-output check,
\* metadata probe, cut-point planning, segment extraction, artifact builds,
\* workspace removal: no extraction call before the probe has succeeded and
\* cut points are planned, no build before extraction has finished, and
\* after a failure exit no later stage runs.
C25_StagesInOrder ==
  /\ [](\A j, k \in 1..Len(log) :
          (j < k /\ stage_of(log[j]) # 0 /\ stage_of(log[k]) # 0)
          => stage_of(log[j]) <= stage_of(log[k]))
  /\ [](calls("extract") # << >>
          => /\ video.probe_ok
             /\ Event("probe", "format", 0) \in Range(log)
             /\ duration = video.duration
             /\ valid_points # << >>
             /\ Len(cut_points_sec) = Len(valid_points))
  /\ [](calls("build") # << >> => pc \notin {"check", "prepare", "metadata",
                                             "plan", "segments"})
  /\ [](pc = "returned"
          => \A g \in stages_logged : g <= last_stage(exit_at))
  /\ [][ pc = "returned" => UNCHANGED log ]_vars
  /\ [][ (temp_dir /\ ~temp_dir') => pc' = "returned" ]_vars

\* a run that went through every stage: deletion of an existing artifact,
\* probe, extraction, a build, removal of the temp directory
C25_Witness ==
  /\ pc = "returned"
  /\ exit_at = "end"
  /\ stages_logged = {1, 2, 4, 5}
  /\ ~temp_dir

(***************************************************************************)
(* The pixel widths of the animated sheet: the orientation read from the   *)
(* probed resolution, the width _get_vf_filter scales a segment to, and    *)
(* the width of the image _create_info_image draws.                        *)
(***************************************************************************)
\* widths and heights ffprobe reports
Dimensions == {480, 720, 1080, 1920}

LayoutConfigs ==
  { [DefaultConfig EXCEPT !.GRID_WIDTH = g, !.ADD_BLACK_BARS = b] :
      g \in {3, 4}, b \in BOOLEAN }

LayoutVideos ==
  { [GoodVideo EXCEPT !.width = w, !.height = h] :
      w \in Dimensions, h \in Dimensions }

\* self.is_vertical = width < height
is_vertical(v) == v.width < v.height

\* the output width of the scale filter of _get_vf_filter
segment_width(vertical, c) ==
  IF vertical /\ ~c.ADD_BLACK_BARS THEN 270 ELSE 480

\* img_width of _create_info_image
img_width(im, c, vertical) ==
  IF im = "preview"
  THEN CASE c.GRID_WIDTH = 3 ->
              IF vertical /\ ~c.ADD_BLACK_BARS THEN 810 ELSE 1440
         [] c.GRID_WIDTH = 4 ->
              IF vertical /\ ~c.ADD_BLACK_BARS THEN 1080 ELSE 1920
         [] OTHER -> 0
  ELSE IF c.GRID_WIDTH = 4 /\ (~vertical \/ c.ADD_BLACK_BARS)
       THEN 1920 ELSE 1440

LayoutInit ==
  /\ impl \in Impls
  /\ cfg \in LayoutConfigs
  /\ video \in LayoutVideos
  /\ pc = "layout_metadata"
  /\ exists = {}
  /\ video_in_target = FALSE
  /\ Idle

layoutUnchanged ==
  UNCHANGED <<inputVars, planVars, duration, segVars, fsVars, outVars,
              retVars, log, faults, batch, folder>>

\* _get_metadata sets is_vertical
LayoutMetadata ==
  /\ pc = "layout_metadata"
  /\ layout' = [layout EXCEPT !.is_vertical = is_vertical(video)]
  /\ pc' = "layout_segments"
  /\ layoutUnchanged

\* _generate_segments scales every clip with the filter of _get_vf_filter
LayoutSegments ==
  /\ pc = "layout_segments"
  /\ layout' = [layout EXCEPT
                  !.segment_width = segment_width(layout.is_vertical, cfg)]
  /\ pc' = "layout_info_image"
  /\ layoutUnchanged

\* _create_info_image
LayoutInfoImage ==
  /\ pc = "layout_info_image"
  /\ layout' = [layout EXCEPT
                  !.img_width = img_width(impl, cfg, layout.is_vertical)]
  /\ pc' = "layout_done"
  /\ layoutUnchanged

LayoutNext == LayoutMetadata \/ LayoutSegments \/ LayoutInfoImage

SpecLayout == LayoutInit /\ [][LayoutNext]_vars

\* C26: for every grid width G in {3,4}, every source orientation and
\* every black-bar setting, the info panel image is G times as wide as a
\* segment clip, which is 480 wide for landscape or padded sources and 270
\* for unpadded vertical ones.
C26_InfoImageAsWideAsARow ==
  pc = "layout_done" =>
    /\ layout.segment_width =
         IF video.width < video.height /\ ~cfg.ADD_BLACK_BARS
         THEN 270 ELSE 480
    /\ layout.img_width = cfg.GRID_WIDTH * layout.segment_width

(***************************************************************************)
(* Claims about _check_existing_outputs, continued                         *)
(***************************************************************************)
\* some, not all, of the configured artifacts exist and IGNORE_EXISTING is off
partial_existing ==
  /\ ~cfg.IGNORE_EXISTING
  /\ configured(cfg) \cap exists # {}
  /\ configured(cfg) \ exists # {}

\* C27: with ignore-existing disabled and only some of the configured
\* artifacts existing, the video is skipped without any probe or transcode
\* call unless every existing artifact was deleted on approval: no
\* implementation proceeds while an existing artifact is still in place.
C27_NoProceedOverExisting ==
  [][ (pc = "check" /\ partial_existing)
      => \/ /\ pc' = "returned"
            /\ ret' = "false"
            /\ \A e \in Range(log') : e.op \notin external_ops
         \/ configured(cfg) \cap exists' = {} ]_vars

(***************************************************************************)
(* Claims about the two lists _generate_segments returns                   *)
(***************************************************************************)
\* C28: in preview.py, after _generate_segments returns, the list for the
\* standalone preview and the list for the sheet have the same length,
\* their i-th entries derive from the same cut point, and both are ordered
\* by strictly increasing start time, in every overlay mode and for every
\* pattern of extraction and overlay failures.
C28_ListsAligned ==
  (pc = "segments_returned" /\ impl = "preview") =>
    /\ Len(timestamped_segment_files) = Len(segment_files)
    /\ \A k \in 1..Len(segment_files) :
         /\ timestamped_segment_files[k].seg = segment_files[k].seg
         /\ timestamped_segment_files[k].start = segment_files[k].start
         /\ segment_files[k].start = cut_points_sec[segment_files[k].seg]
    /\ \A k \in 1..(Len(segment_files) - 1) :
         /\ segment_files[k].start < segment_files[k + 1].start
         /\ timestamped_segment_files[k].start <
              timestamped_segment_files[k + 1].start

\* two segments left of three cut points after a failed extraction
C28_Witness ==
  /\ pc = "segments_returned"
  /\ impl = "preview"
  /\ Len(cut_points_sec) = MaxCuts
  /\ Len(segment_files) = 2
  /\ Len(calls("extract")) = MaxCuts
  /\ Event("unlink", "segment", 2) \in Range(log)

(***************************************************************************)
(* Claims about the counters of the loop of main                           *)
(***************************************************************************)
\* C29: in preview.py's batch loop, when the loop ends, normally or by an
\* interruption at any video, success_count + failure_count equals the
\* number of videos found: every video is counted exactly once.
C29_EveryVideoCountedOnce ==
  (impl = "preview" /\ batch.state \in {"done", "interrupted"})
  => batch.success_count + batch.failure_count = Len(batch.videos)

\* C30: in preview.py the canvas of the static sheet has ceil(N/G) rows for
\* the configured N, and with k <= N frames extracted every cell 1..N is
\* painted exactly once and inside the canvas: cells 1..k in the order of
\* the extracted frames, each showing its frame or, when that frame cannot
\* be opened or pasted, an error placeholder; cells k+1..N a placeholder.
times_painted(i) ==
  Cardinality({p \in 1..Len(image_sheet.painted) : image_sheet.painted[p] = i})

ascending(frames) ==
  \A a, b \in 1..Len(frames) : a < b => frames[a] < frames[b]

C30_EveryCellOnceInsideCanvas ==
  (impl = "preview" /\ image_sheet # NoImage
     /\ Len(segment_frame_files) <= cfg.NUM_OF_SEGMENTS)
  => LET N == cfg.NUM_OF_SEGMENTS
         G == cfg.GRID_WIDTH
         k == Len(segment_frame_files)
     IN  /\ image_sheet.rows = (N + G - 1) \div G
         /\ Len(image_sheet.cells) = N
         /\ ascending(segment_frame_files)
         /\ \A i \in 1..N :
              /\ times_painted(i) = 1
              /\ (i - 1) \div G < image_sheet.rows
              /\ (i - 1) % G < G
              /\ i <= k => image_sheet.cells[i] \in
                             {Frame(segment_frame_files[i]), Placeholder}
              /\ i > k => image_sheet.cells[i] = Placeholder
         /\ \A p \in 1..Len(image_sheet.painted) :
              image_sheet.painted[p] \in 1..N

\* a sheet of preview.py with fewer frames than configured segments
C30_Witness ==
  /\ impl = "preview"
  /\ image_sheet # NoImage
  /\ segment_frame_files # << >>
  /\ Len(segment_frame_files) < cfg.NUM_OF_SEGMENTS
  /\ "image" \in exists

\* C30 as stated: cells 1..k show the extracted frames
C30_Original ==
  (impl = "preview" /\ image_sheet # NoImage
     /\ Len(segment_frame_files) <= cfg.NUM_OF_SEGMENTS)
  => \A i \in 1..Len(segment_frame_files) :
       image_sheet.cells[i] = Frame(segment_frame_files[i])

====
